---- MODULE Spec2Model ----
(***************************************************************************)
(* State-machine model of src/src/ExcelLibrary.py (class ExcelLibrary):    *)
(* the document cache (_cache, _current_id) and the cell/row/column        *)
(* keywords that delegate to the openpyxl worksheet object model.          *)
(*                                                                         *)
(* Python values are modelled as tagged records (PyNone, PyStr, PyInt,     *)
(* PyBool) so that None, "", 1 and "1" are distinct values.  The ordered   *)
(* dict _cache is an association list in insertion order.  A worksheet is  *)
(* the openpyxl _cells dict: a function from the coordinates of the cells  *)
(* that exist to their values (an existing cell may hold None).            *)
(***************************************************************************)
EXTENDS Integers, Sequences, FiniteSets, TLC

\* ------------------------------------------------------------------ bounds
MaxRow == 2
MaxCol == 2
MaxLen == 2

\* ----------------------------------------------------------- Python values
PyNone == [t |-> "none", s |-> "", n |-> 0, b |-> FALSE]
PyStr(x) == [t |-> "str", s |-> x, n |-> 0, b |-> FALSE]
PyInt(x) == [t |-> "int", s |-> "", n |-> x, b |-> FALSE]
PyBool(x) == [t |-> "bool", s |-> "", n |-> 0, b |-> x]

Digit == <<"0", "1", "2", "3", "4", "5", "6", "7", "8", "9">>

RECURSIVE IntToStr(_)
IntToStr(k) ==
    IF k < 0 THEN "-" \o IntToStr(0 - k)
    ELSE IF k < 10 THEN Digit[k + 1]
    ELSE IntToStr(k \div 10) \o Digit[(k % 10) + 1]

\* str(x) of a Python value
str(v) ==
    CASE v.t = "str" -> v.s
      [] v.t = "int" -> IntToStr(v.n)
      [] v.t = "bool" -> (IF v.b THEN "True" ELSE "False")
      [] OTHER -> "None"

\* int(x) of an integer or of the decimal string of a small integer
int(v) ==
    IF v.t = "int" THEN v.n
    ELSE CHOOSE k \in 0..9 : IntToStr(k) = v.s

\* truth value of a Python value, as tested by `not x`
Truthy(v) ==
    CASE v.t = "none" -> FALSE
      [] v.t = "str" -> v.s # ""
      [] v.t = "int" -> v.n # 0
      [] OTHER -> v.b

\* ------------------------------------------------- the ordered dict _cache
Keys(c) == [i \in 1..Len(c) |-> c[i].id]

KeySet(c) == {c[i].id : i \in 1..Len(c)}

\* `x in self._cache` for a Python value x: the keys are all strings, and a
\* non-string never equals a string key
InCache(c, v) == v.t = "str" /\ v.s \in KeySet(c)

Lookup(c, k) == (CHOOSE e \in {c[i] : i \in 1..Len(c)} : e.id = k).wb

\* self._cache[k] = wb
SetItem(c, k, wb) ==
    IF k \in KeySet(c)
    THEN [i \in 1..Len(c) |-> IF c[i].id = k THEN [id |-> k, wb |-> wb] ELSE c[i]]
    ELSE Append(c, [id |-> k, wb |-> wb])

\* self._cache.pop(k)
Pop(c, k) == SelectSeq(c, LAMBDA e : e.id # k)

\* ------------------------------------------------------ openpyxl workbooks
NoCells == [p \in {} |-> PyNone]

\* openpyxl.Workbook(): one empty sheet named "Sheet", which is active
NewWorkbook ==
    [sheetnames |-> <<"Sheet">>, active |-> 1, ws |-> [x \in {"Sheet"} |-> NoCells]]

\* the workbook stored in the well-formed source: one sheet with A1 = "f"
FileWorkbook ==
    [sheetnames |-> <<"Sheet">>, active |-> 1,
     ws |-> [x \in {"Sheet"} |-> (<<1, 1>> :> PyStr("f"))]]

\* openpyxl.load_workbook(source): a malformed source raises in the engine
LoadWorkbook(src) ==
    IF src = "ok.xlsx" THEN [ok |-> TRUE, wb |-> FileWorkbook]
    ELSE [ok |-> FALSE, wb |-> NewWorkbook]

\* ------------------------------------------------------- outcome of a call
NoList == <<>>

Outcome(c, cur, exc, ret, retlist) ==
    [cache |-> c, cur |-> cur, exc |-> exc, ret |-> ret, retlist |-> retlist]

Raise(c, cur, exc) == Outcome(c, cur, exc, PyNone, NoList)

\* ------------------------------------------------------- session keywords
\* create_excel_document without the duplicate check of lines 63-65
create_excel_document_overwrites(c, cur, doc_id) ==
    LET k == str(doc_id) IN
    Outcome(SetItem(c, k, NewWorkbook), PyStr(k), "none", PyStr(k), NoList)

create_excel_document(c, cur, doc_id) ==
    LET k == str(doc_id) IN
    IF k \in KeySet(c) THEN Raise(c, cur, "SuchIdIsExistException")
    ELSE Outcome(SetItem(c, k, NewWorkbook), PyStr(k), "none", PyStr(k), NoList)

\* open_excel_document assigning _current_id before load_workbook is called
open_excel_document_sets_current_first(c, cur, filename, doc_id) ==
    LET k == str(doc_id)
        l == LoadWorkbook(str(filename)) IN
    IF k \in KeySet(c) THEN Raise(c, cur, "SuchIdIsExistException")
    ELSE IF ~l.ok THEN Raise(c, PyStr(k), "EngineError")
    ELSE Outcome(SetItem(c, k, l.wb), PyStr(k), "none", PyStr(k), NoList)

open_excel_document(c, cur, filename, doc_id) ==
    LET k == str(doc_id)
        l == LoadWorkbook(str(filename)) IN
    IF k \in KeySet(c) THEN Raise(c, cur, "SuchIdIsExistException")
    ELSE IF ~l.ok THEN Raise(c, cur, "EngineError")
    ELSE Outcome(SetItem(c, k, l.wb), PyStr(k), "none", PyStr(k), NoList)

open_excel_document_from_stream(c, cur, stream, doc_id) ==
    LET k == str(doc_id)
        l == LoadWorkbook(stream) IN
    IF k \in KeySet(c) THEN Raise(c, cur, "SuchIdIsExistException")
    ELSE IF ~l.ok THEN Raise(c, cur, "EngineError")
    ELSE Outcome(SetItem(c, k, l.wb), PyStr(k), "none", PyStr(k), NoList)

\* switch_current_excel_document returning the new identifier, not the old
switch_current_returns_new(c, cur, doc_id) ==
    IF ~InCache(c, doc_id) THEN Raise(c, cur, "NoSuchIdException")
    ELSE Outcome(c, doc_id, "none", doc_id, NoList)

switch_current_excel_document(c, cur, doc_id) ==
    IF ~InCache(c, doc_id) THEN Raise(c, cur, "NoSuchIdException")
    ELSE Outcome(c, doc_id, "none", cur, NoList)

\* close_current_excel_document without line 156 (_current_id = None)
close_current_keeps_id(c, cur) ==
    LET c1 == IF cur # PyNone THEN Pop(c, cur.s) ELSE c
        cur2 == IF Len(c1) > 0 THEN PyStr(Keys(c1)[1]) ELSE cur IN
    Outcome(c1, cur2, "none", cur2, NoList)

\* close_current_excel_document without lines 157-158 (the reassignment)
close_current_no_reassign(c, cur) ==
    LET c1 == IF cur # PyNone THEN Pop(c, cur.s) ELSE c IN
    Outcome(c1, PyNone, "none", PyNone, NoList)

\* close_current_excel_document taking the last key, list(...)[-1], as the
\* new current
close_current_picks_last(c, cur) ==
    LET c1 == IF cur # PyNone THEN Pop(c, cur.s) ELSE c
        cur2 == IF Len(c1) > 0 THEN PyStr(Keys(c1)[Len(c1)]) ELSE PyNone IN
    Outcome(c1, cur2, "none", cur2, NoList)

close_current_excel_document(c, cur) ==
    LET c1 == IF cur # PyNone THEN Pop(c, cur.s) ELSE c
        cur2 == IF Len(c1) > 0 THEN PyStr(Keys(c1)[1]) ELSE PyNone IN
    Outcome(c1, cur2, "none", cur2, NoList)

\* close_all_excel_documents without line 169 (_current_id = None)
close_all_keeps_current(c, cur) ==
    Outcome(<<>>, cur, "none", PyNone, NoList)

\* close_all_excel_documents without line 168 (_cache = {})
close_all_keeps_cache(c, cur) ==
    Outcome(c, PyNone, "none", PyNone, NoList)

close_all_excel_documents(c, cur) ==
    Outcome(<<>>, PyNone, "none", PyNone, NoList)

\* ------------------------------------------------- openpyxl worksheet model
Max(S) == CHOOSE x \in S : \A y \in S : y <= x

\* Worksheet.max_row / Worksheet.max_column: 1 for a sheet without cells
max_row(cells) ==
    IF DOMAIN cells = {} THEN 1 ELSE Max({p[1] : p \in DOMAIN cells})

max_column(cells) ==
    IF DOMAIN cells = {} THEN 1 ELSE Max({p[2] : p \in DOMAIN cells})

\* Worksheet._get_cell(row, column): the cell is created empty when missing
GetCell(cells, r, col) ==
    IF <<r, col>> \in DOMAIN cells THEN cells ELSE (<<r, col>> :> PyNone) @@ cells

\* cell.value = value
BindValue(cells, r, col, value) == [GetCell(cells, r, col) EXCEPT ![<<r, col>>] = value]

\* Worksheet.cell(row, column, value): the value is bound only when it is
\* not None
CellCall(cells, r, col, value) ==
    IF r < 1 \/ col < 1 THEN [exc |-> "ValueError", cells |-> cells, value |-> PyNone]
    ELSE LET c1 == IF value # PyNone THEN BindValue(cells, r, col, value)
                   ELSE GetCell(cells, r, col) IN
         [exc |-> "none", cells |-> c1, value |-> c1[<<r, col>>]]

\* `a or b` on integers
OrElse(a, b) == IF a # 0 THEN a ELSE b

\* Worksheet.iter_rows(min_row, max_row, min_col, max_col): the bounds that
\* are 0 default to 1 and to the sheet's dimensions
IterBounds(cells, min_r, max_r, min_c, max_c) ==
    [r1 |-> OrElse(min_r, 1), r2 |-> OrElse(max_r, max_row(cells)),
     c1 |-> OrElse(min_c, 1), c2 |-> OrElse(max_c, max_column(cells))]

\* the cells of rows r1..r2, columns c1..c2 after Worksheet.cell visited them
Touch(cells, r1, r2, c1, c2) ==
    LET new == ((r1..r2) \X (c1..c2)) \ DOMAIN cells IN
    [p \in new |-> PyNone] @@ cells

\* ---------------------------------------------------- document resolution
PutCells(c, k, name, cells) ==
    SetItem(c, k, [Lookup(c, k) EXCEPT !.ws[name] = cells])

\* _get_current_workbook: the key of the current workbook
get_current_workbook(c, cur) ==
    IF Len(c) = 0 \/ ~Truthy(cur)
    THEN [exc |-> "NoOpenedDocumentsException", key |-> ""]
    ELSE [exc |-> "none", key |-> cur.s]

\* get_sheet: the key of the current workbook and the name of the resolved
\* sheet (the active sheet when no name is given)
get_sheet(c, cur, sheet_name) ==
    LET w == get_current_workbook(c, cur) IN
    IF w.exc # "none" THEN [exc |-> w.exc, key |-> "", name |-> ""]
    ELSE LET wb == Lookup(c, w.key) IN
         IF sheet_name = PyNone
         THEN [exc |-> "none", key |-> w.key, name |-> wb.sheetnames[wb.active]]
         ELSE IF str(sheet_name) \in DOMAIN wb.ws
         THEN [exc |-> "none", key |-> w.key, name |-> str(sheet_name)]
         ELSE [exc |-> "KeyError", key |-> "", name |-> ""]

SheetCells(c, sh) == Lookup(c, sh.key).ws[sh.name]

\* save_excel_document that also drops the saved document from _cache
save_excel_document_closes(c, cur, filename) ==
    LET w == get_current_workbook(c, cur) IN
    IF w.exc # "none" THEN Raise(c, cur, w.exc)
    ELSE IF filename = "/ro/out.xlsx" THEN Raise(c, cur, "EngineError")
    ELSE Outcome(Pop(c, w.key), cur, "none", PyNone, NoList)

\* workbook.save(filename): an unwritable destination raises in the engine
save_excel_document(c, cur, filename) ==
    LET w == get_current_workbook(c, cur) IN
    IF w.exc # "none" THEN Raise(c, cur, w.exc)
    ELSE IF filename = "/ro/out.xlsx" THEN Raise(c, cur, "EngineError")
    ELSE Outcome(c, cur, "none", PyNone, NoList)

get_list_sheet_names(c, cur) ==
    LET w == get_current_workbook(c, cur) IN
    IF w.exc # "none" THEN Raise(c, cur, w.exc)
    ELSE Outcome(c, cur, "none", PyNone,
                 [i \in 1..Len(Lookup(c, w.key).sheetnames) |->
                     PyStr(Lookup(c, w.key).sheetnames[i])])

\* ------------------------------------------------------------ read keywords
read_excel_cell(c, cur, row_num, col_num, sheet_name) ==
    LET r == int(row_num)
        col == int(col_num)
        sh == get_sheet(c, cur, sheet_name) IN
    IF sh.exc # "none" THEN Raise(c, cur, sh.exc)
    ELSE LET res == CellCall(SheetCells(c, sh), r, col, PyNone) IN
         IF res.exc # "none" THEN Raise(c, cur, res.exc)
         ELSE Outcome(PutCells(c, sh.key, sh.name, res.cells), cur, "none", res.value, NoList)

\* read_excel_row with min_col = col_offset instead of 1 + col_offset
read_excel_row_min_col_off(c, cur, row_num, col_offset, max_num, sheet_name) ==
    LET r == int(row_num)
        k == int(col_offset)
        m == int(max_num)
        sh == get_sheet(c, cur, sheet_name) IN
    IF sh.exc # "none" THEN Raise(c, cur, sh.exc)
    ELSE LET cells == SheetCells(c, sh)
             b == IterBounds(cells, r, r, k, k + m)
             c1 == Touch(cells, b.r1, b.r1, b.c1, b.c2) IN
         IF b.r1 > b.r2 THEN Raise(c, cur, "StopIteration")
         ELSE Outcome(PutCells(c, sh.key, sh.name, c1), cur, "none", PyNone,
                      [i \in 1..(IF b.c2 >= b.c1 THEN b.c2 - b.c1 + 1 ELSE 0) |->
                          c1[<<b.r1, b.c1 + i - 1>>]])

read_excel_row(c, cur, row_num, col_offset, max_num, sheet_name) ==
    LET r == int(row_num)
        k == int(col_offset)
        m == int(max_num)
        sh == get_sheet(c, cur, sheet_name) IN
    IF sh.exc # "none" THEN Raise(c, cur, sh.exc)
    ELSE LET cells == SheetCells(c, sh)
             b == IterBounds(cells, r, r, 1 + k, k + m)
             c1 == Touch(cells, b.r1, b.r1, b.c1, b.c2) IN
         IF b.r1 > b.r2 THEN Raise(c, cur, "StopIteration")
         ELSE Outcome(PutCells(c, sh.key, sh.name, c1), cur, "none", PyNone,
                      [i \in 1..(IF b.c2 >= b.c1 THEN b.c2 - b.c1 + 1 ELSE 0) |->
                          c1[<<b.r1, b.c1 + i - 1>>]])

\* read_excel_column with min_row = row_offset instead of 1 + row_offset
read_excel_column_min_row_off(c, cur, col_num, row_offset, max_num, sheet_name) ==
    LET col == int(col_num)
        k == int(row_offset)
        m == int(max_num)
        sh == get_sheet(c, cur, sheet_name) IN
    IF sh.exc # "none" THEN Raise(c, cur, sh.exc)
    ELSE LET cells == SheetCells(c, sh)
             b == IterBounds(cells, k, k + m, col, col)
             c1 == Touch(cells, b.r1, b.r2, b.c1, b.c2) IN
         Outcome(PutCells(c, sh.key, sh.name, c1), cur, "none", PyNone,
                 [i \in 1..(IF b.r2 >= b.r1 THEN b.r2 - b.r1 + 1 ELSE 0) |->
                     c1[<<b.r1 + i - 1, b.c1>>]])

read_excel_column(c, cur, col_num, row_offset, max_num, sheet_name) ==
    LET col == int(col_num)
        k == int(row_offset)
        m == int(max_num)
        sh == get_sheet(c, cur, sheet_name) IN
    IF sh.exc # "none" THEN Raise(c, cur, sh.exc)
    ELSE LET cells == SheetCells(c, sh)
             b == IterBounds(cells, 1 + k, k + m, col, col)
             c1 == Touch(cells, b.r1, b.r2, b.c1, b.c2) IN
         Outcome(PutCells(c, sh.key, sh.name, c1), cur, "none", PyNone,
                 [i \in 1..(IF b.r2 >= b.r1 THEN b.r2 - b.r1 + 1 ELSE 0) |->
                     c1[<<b.r1 + i - 1, b.c1>>]])

\* ----------------------------------------------------------- write keywords
write_excel_cell(c, cur, row_num, col_num, value, sheet_name) ==
    LET r == int(row_num)
        col == int(col_num)
        sh == get_sheet(c, cur, sheet_name) IN
    IF sh.exc # "none" THEN Raise(c, cur, sh.exc)
    ELSE LET res == CellCall(SheetCells(c, sh), r, col, value) IN
         IF res.exc # "none" THEN Raise(c, cur, res.exc)
         ELSE Outcome(PutCells(c, sh.key, sh.name, res.cells), cur, "none", PyNone, NoList)

\* the loop of write_excel_row from index i on: sheet.cell(row, i + offset)
RECURSIVE WriteRowLoop(_, _, _, _, _)
WriteRowLoop(cells, r, k, data, i) ==
    IF i > Len(data) THEN [exc |-> "none", cells |-> cells]
    ELSE LET res == CellCall(cells, r, (i - 1) + k + 1, data[i]) IN
         IF res.exc # "none" THEN [exc |-> res.exc, cells |-> cells]
         ELSE WriteRowLoop(res.cells, r, k, data, i + 1)

write_excel_row(c, cur, row_num, row_data, col_offset, sheet_name) ==
    LET r == int(row_num)
        k == int(col_offset)
        sh == get_sheet(c, cur, sheet_name) IN
    IF sh.exc # "none" THEN Raise(c, cur, sh.exc)
    ELSE LET res == WriteRowLoop(SheetCells(c, sh), r, k, row_data, 1) IN
         IF res.exc # "none"
         THEN Raise(PutCells(c, sh.key, sh.name, res.cells), cur, res.exc)
         ELSE Outcome(PutCells(c, sh.key, sh.name, res.cells), cur, "none", PyNone, NoList)

\* the loop of write_excel_rows from index i on: one write_excel_row call
\* per inner list, so an empty list makes no call at all
RECURSIVE WriteRowsLoop(_, _, _, _, _, _, _)
WriteRowsLoop(c, cur, rows_data, rows_offset, col_offset, sheet_name, i) ==
    IF i > Len(rows_data) THEN Outcome(c, cur, "none", PyNone, NoList)
    ELSE LET o == write_excel_row(c, cur, PyInt((i - 1) + int(rows_offset) + 1),
                                  rows_data[i], col_offset, sheet_name) IN
         IF o.exc # "none" THEN o
         ELSE WriteRowsLoop(o.cache, cur, rows_data, rows_offset, col_offset, sheet_name, i + 1)

write_excel_rows(c, cur, rows_data, rows_offset, col_offset, sheet_name) ==
    WriteRowsLoop(c, cur, rows_data, rows_offset, col_offset, sheet_name, 1)

\* the loop of write_excel_column from index i on: sheet.cell(i + offset, col)
RECURSIVE WriteColumnLoop(_, _, _, _, _)
WriteColumnLoop(cells, col, k, data, i) ==
    IF i > Len(data) THEN [exc |-> "none", cells |-> cells]
    ELSE LET res == CellCall(cells, (i - 1) + k + 1, col, data[i]) IN
         IF res.exc # "none" THEN [exc |-> res.exc, cells |-> cells]
         ELSE WriteColumnLoop(res.cells, col, k, data, i + 1)

write_excel_column(c, cur, col_num, col_data, row_offset, sheet_name) ==
    LET col == int(col_num)
        k == int(row_offset)
        sh == get_sheet(c, cur, sheet_name) IN
    IF sh.exc # "none" THEN Raise(c, cur, sh.exc)
    ELSE LET res == WriteColumnLoop(SheetCells(c, sh), col, k, col_data, 1) IN
         IF res.exc # "none"
         THEN Raise(PutCells(c, sh.key, sh.name, res.cells), cur, res.exc)
         ELSE Outcome(PutCells(c, sh.key, sh.name, res.cells), cur, "none", PyNone, NoList)

\* ------------------------------------------------------------------- state
VARIABLES cache, current_id, last

vars == <<cache, current_id, last>>

\* the arguments of the last call, as recorded in `last`
NoArgs ==
    [id |-> PyNone, src |-> "", row |-> 0, col |-> 0, roff |-> 0, coff |-> 0,
     num |-> 0, value |-> PyNone, data |-> <<>>, rows |-> <<>>, sheet |-> PyNone]

Init ==
    /\ cache = <<>>
    /\ current_id = PyNone
    /\ last = [op |-> "init", exc |-> "none", ret |-> PyNone, retlist |-> NoList, a |-> NoArgs]

\* the record of a call in `last`: the keyword, its arguments, the exception
\* it raised ("none" when it returned) and its return value
Called(op, o, a) ==
    [op |-> op, exc |-> o.exc, ret |-> o.ret, retlist |-> o.retlist, a |-> a]

\* ----------------------------------------------------------------- actions
\* each action is one keyword call: the session takes the state the keyword
\* leaves (also when it raises), and `last` records the call
CreateExcelDocument(d) ==
    LET o == create_excel_document(cache, current_id, d) IN
    /\ cache' = o.cache
    /\ current_id' = o.cur
    /\ last' = Called("create_excel_document", o, [NoArgs EXCEPT !.id = d])

OpenExcelDocument(f, d) ==
    LET o == open_excel_document(cache, current_id, PyStr(f), d) IN
    /\ cache' = o.cache
    /\ current_id' = o.cur
    /\ last' = Called("open_excel_document", o, [NoArgs EXCEPT !.id = d, !.src = f])

OpenExcelDocumentFromStream(f, d) ==
    LET o == open_excel_document_from_stream(cache, current_id, f, d) IN
    /\ cache' = o.cache
    /\ current_id' = o.cur
    /\ last' = Called("open_excel_document_from_stream", o,
                      [NoArgs EXCEPT !.id = d, !.src = f])

SwitchCurrentExcelDocument(d) ==
    LET o == switch_current_excel_document(cache, current_id, d) IN
    /\ cache' = o.cache
    /\ current_id' = o.cur
    /\ last' = Called("switch_current_excel_document", o, [NoArgs EXCEPT !.id = d])

CloseCurrentExcelDocument ==
    LET o == close_current_excel_document(cache, current_id) IN
    /\ cache' = o.cache
    /\ current_id' = o.cur
    /\ last' = Called("close_current_excel_document", o, NoArgs)

CloseAllExcelDocuments ==
    LET o == close_all_excel_documents(cache, current_id) IN
    /\ cache' = o.cache
    /\ current_id' = o.cur
    /\ last' = Called("close_all_excel_documents", o, NoArgs)

SaveExcelDocument(f) ==
    LET o == save_excel_document(cache, current_id, f) IN
    /\ cache' = o.cache
    /\ current_id' = o.cur
    /\ last' = Called("save_excel_document", o, [NoArgs EXCEPT !.src = f])

GetListSheetNames ==
    LET o == get_list_sheet_names(cache, current_id) IN
    /\ cache' = o.cache
    /\ current_id' = o.cur
    /\ last' = Called("get_list_sheet_names", o, NoArgs)

GetSheet(sn) ==
    LET sh == get_sheet(cache, current_id, sn)
        o == Outcome(cache, current_id, sh.exc, PyStr(sh.name), NoList) IN
    /\ cache' = o.cache
    /\ current_id' = o.cur
    /\ last' = Called("get_sheet", o, [NoArgs EXCEPT !.sheet = sn])

ReadExcelCell(r, col, sn) ==
    LET o == read_excel_cell(cache, current_id, r, col, sn) IN
    /\ cache' = o.cache
    /\ current_id' = o.cur
    /\ last' = Called("read_excel_cell", o,
                      [NoArgs EXCEPT !.row = int(r), !.col = int(col), !.sheet = sn])

ReadExcelRow(r, k, m, sn) ==
    LET o == read_excel_row(cache, current_id, r, k, m, sn) IN
    /\ cache' = o.cache
    /\ current_id' = o.cur
    /\ last' = Called("read_excel_row", o,
                      [NoArgs EXCEPT !.row = int(r), !.coff = int(k), !.num = int(m),
                                     !.sheet = sn])

ReadExcelColumn(col, k, m, sn) ==
    LET o == read_excel_column(cache, current_id, col, k, m, sn) IN
    /\ cache' = o.cache
    /\ current_id' = o.cur
    /\ last' = Called("read_excel_column", o,
                      [NoArgs EXCEPT !.col = int(col), !.roff = int(k), !.num = int(m),
                                     !.sheet = sn])

WriteExcelCell(r, col, v, sn) ==
    LET o == write_excel_cell(cache, current_id, r, col, v, sn) IN
    /\ cache' = o.cache
    /\ current_id' = o.cur
    /\ last' = Called("write_excel_cell", o,
                      [NoArgs EXCEPT !.row = int(r), !.col = int(col), !.value = v,
                                     !.sheet = sn])

WriteExcelRow(r, data, k, sn) ==
    LET o == write_excel_row(cache, current_id, r, data, k, sn) IN
    /\ cache' = o.cache
    /\ current_id' = o.cur
    /\ last' = Called("write_excel_row", o,
                      [NoArgs EXCEPT !.row = int(r), !.data = data, !.coff = int(k),
                                     !.sheet = sn])

WriteExcelRows(rows, rk, ck, sn) ==
    LET o == write_excel_rows(cache, current_id, rows, rk, ck, sn) IN
    /\ cache' = o.cache
    /\ current_id' = o.cur
    /\ last' = Called("write_excel_rows", o,
                      [NoArgs EXCEPT !.rows = rows, !.roff = int(rk), !.coff = int(ck),
                                     !.sheet = sn])

WriteExcelColumn(col, data, k, sn) ==
    LET o == write_excel_column(cache, current_id, col, data, k, sn) IN
    /\ cache' = o.cache
    /\ current_id' = o.cur
    /\ last' = Called("write_excel_column", o,
                      [NoArgs EXCEPT !.col = int(col), !.data = data, !.roff = int(k),
                                     !.sheet = sn])

\* ------------------------------------------------------------------ inputs
\* all sequences over V of length 0..m
Lists(V, m) == UNION {[1..k -> V] : k \in 0..m}

Ints(S) == {PyInt(x) : x \in S}

\* document identifiers as the caller passes them: strings (the empty string
\* included) and the integer 1, whose str() is the string "1"
IdArgs == {PyStr(""), PyStr("a"), PyStr("1"), PyInt(1)}

Sources == {"ok.xlsx", "bad.xlsx"}

Targets == {"out.xlsx", "/ro/out.xlsx"}

SheetArgs == {PyNone, PyStr("Sheet"), PyStr("Nope")}

\* cell values: absent, a string, a number
Values == {PyNone, PyStr("x"), PyInt(7)}

\* row and column numbers: 0 (below the 1-based range), the numbers of the
\* grid, and the string "1" for a number passed as text
RowArgs == Ints(0..MaxRow)

ColArgs == Ints(1..MaxCol) \cup {PyStr("1")}

\* (offset, count) pairs and (offset, list) pairs that stay within `width`
Windows(width) == {w \in (0..(width - 1)) \X (0..MaxLen) : w[1] + w[2] <= width}

OffsetLists(width) ==
    {w \in (0..(width - 1)) \X Lists(Values, MaxLen) : w[1] + Len(w[2]) <= width}

\* ------------------------------------------- Spec: the session, small sheets
\* every keyword, any identifier; the cell keywords address cell (1, 1) only
Next ==
    \/ \E d \in IdArgs : CreateExcelDocument(d)
    \/ \E d \in IdArgs, f \in Sources : OpenExcelDocument(f, d)
    \/ \E d \in IdArgs, f \in Sources : OpenExcelDocumentFromStream(f, d)
    \/ \E d \in IdArgs : SwitchCurrentExcelDocument(d)
    \/ CloseCurrentExcelDocument
    \/ CloseAllExcelDocuments
    \/ \E f \in Targets : SaveExcelDocument(f)
    \/ GetListSheetNames
    \/ \E sn \in SheetArgs : GetSheet(sn)
    \/ \E sn \in {PyNone, PyStr("Nope")} : ReadExcelCell(PyInt(1), PyInt(1), sn)
    \/ \E m \in Ints(0..1) : ReadExcelRow(PyInt(1), PyInt(0), m, PyNone)
    \/ \E m \in Ints(0..1) : ReadExcelColumn(PyInt(1), PyInt(0), m, PyNone)
    \/ \E v \in {PyNone, PyStr("x")} : WriteExcelCell(PyInt(1), PyInt(1), v, PyNone)
    \/ \E data \in Lists({PyStr("x")}, 1) : WriteExcelRow(PyInt(1), data, PyInt(0), PyNone)
    \/ \E rows \in Lists(Lists({PyStr("x")}, 1), 1) :
          WriteExcelRows(rows, PyInt(0), PyInt(0), PyNone)
    \/ \E data \in Lists({PyStr("x")}, 1) : WriteExcelColumn(PyInt(1), data, PyInt(0), PyNone)

Spec == Init /\ [][Next]_vars

\* ------------------------------ SpecCells: one document, single-cell access
\* write_excel_cell and read_excel_cell over the MaxRow x MaxCol grid
NextCells ==
    \/ CreateExcelDocument(PyStr("a"))
    \/ CloseAllExcelDocuments
    \/ \E r \in RowArgs, col \in ColArgs, sn \in SheetArgs : ReadExcelCell(r, col, sn)
    \/ \E r \in RowArgs, col \in ColArgs, v \in Values, sn \in {PyNone, PyStr("Sheet")} :
          WriteExcelCell(r, col, v, sn)

SpecCells == Init /\ [][NextCells]_vars

\* ----------------------------------- SpecRow: one document, access by row
\* write_excel_row and read_excel_row with every offset, count and list that
\* stays within the grid
NextRow ==
    \/ CreateExcelDocument(PyStr("a"))
    \/ CloseAllExcelDocuments
    \/ \E r \in RowArgs, w \in Windows(MaxCol) :
          ReadExcelRow(r, PyInt(w[1]), PyInt(w[2]), PyNone)
    \/ \E r \in RowArgs, w \in OffsetLists(MaxCol) :
          WriteExcelRow(r, w[2], PyInt(w[1]), PyNone)

SpecRow == Init /\ [][NextRow]_vars

\* ------------------------------ SpecColumn: one document, access by column
NextColumn ==
    \/ CreateExcelDocument(PyStr("a"))
    \/ CloseAllExcelDocuments
    \/ \E col \in ColArgs, w \in Windows(MaxRow) :
          ReadExcelColumn(col, PyInt(w[1]), PyInt(w[2]), PyNone)
    \/ \E col \in ColArgs, w \in OffsetLists(MaxRow) :
          WriteExcelColumn(col, w[2], PyInt(w[1]), PyNone)

SpecColumn == Init /\ [][NextColumn]_vars

\* ------------------------------- SpecRows: one document, write_excel_rows
\* the inner lists write_excel_rows is called with: empty, one and two
\* values, None included
RowLists ==
    {<<>>, <<PyStr("x")>>, <<PyInt(7)>>, <<PyStr("x"), PyInt(7)>>, <<PyNone>>,
     <<PyInt(7), PyNone>>}

NextRows ==
    \/ CreateExcelDocument(PyStr("a"))
    \/ CloseAllExcelDocuments
    \/ \E rk \in 0..(MaxRow - 1), ck \in 0..(MaxCol - 1), rows \in Lists(RowLists, MaxLen) :
          /\ rk + Len(rows) <= MaxRow
          /\ \A i \in 1..Len(rows) : ck + Len(rows[i]) <= MaxCol
          /\ WriteExcelRows(rows, PyInt(rk), PyInt(ck), PyNone)

SpecRows == Init /\ [][NextRows]_vars

\* ================================================================== claims
Registered(v) == v.t = "str" /\ v.s \in KeySet(cache)

OpenOps == {"create_excel_document", "open_excel_document", "open_excel_document_from_stream"}

AccessorOps ==
    {"save_excel_document", "get_list_sheet_names", "get_sheet",
     "read_excel_cell", "read_excel_row", "read_excel_column",
     "write_excel_cell", "write_excel_row", "write_excel_rows", "write_excel_column"}

NoAbsent(data) == \A i \in 1..Len(data) : data[i] # PyNone

\* C1: in every reachable state _current_id is None or a key of _cache; it is
\* never a dangling key.
C1_CurrentNeverDangling == current_id = PyNone \/ Registered(current_id)

\* C1 witness: a close left other documents registered and current names
\* one of them.
C1_Witness ==
    /\ last.op = "close_current_excel_document"
    /\ Len(cache) >= 1
    /\ Registered(current_id)

\* C2 (the claim as stated): close_current_excel_document returns the
\* identifier that was current immediately before the call.
C2_ReturnsClosedId ==
    [][last'.op = "close_current_excel_document" => last'.ret = current_id]_vars

\* C3: a create whose identifier (as a string) is not registered succeeds,
\* appends exactly that entry and makes it current; a create or open whose
\* identifier is registered raises SuchIdIsExistException and leaves _cache
\* (keys and workbooks) unchanged.
C3_CreateFreshOrDuplicate ==
    [][/\ (last'.op = "create_excel_document" /\ str(last'.a.id) \notin KeySet(cache))
          => /\ last'.exc = "none"
             /\ cache' = Append(cache, [id |-> str(last'.a.id), wb |-> NewWorkbook])
             /\ current_id' = PyStr(str(last'.a.id))
       /\ (last'.op \in OpenOps /\ str(last'.a.id) \in KeySet(cache))
          => /\ last'.exc = "SuchIdIsExistException"
             /\ cache' = cache]_vars

\* C3 witness: an open of a malformed source under a registered identifier
\* was rejected as a duplicate while two documents are registered.
C3_Witness ==
    /\ last.op = "open_excel_document"
    /\ last.a.src = "bad.xlsx"
    /\ last.exc = "SuchIdIsExistException"
    /\ Len(cache) = 2
    /\ \E i \in 1..Len(cache) : cache[i].wb # NewWorkbook

\* C4: a switch to a registered identifier makes it current, returns the
\* previous current and leaves _cache unchanged; a switch to an identifier
\* that is not registered raises NoSuchIdException and leaves current
\* unchanged.
C4_SwitchCurrent ==
    [][last'.op = "switch_current_excel_document"
       => IF Registered(last'.a.id)
          THEN /\ last'.exc = "none"
               /\ current_id' = last'.a.id
               /\ last'.ret = current_id
               /\ cache' = cache
          ELSE /\ last'.exc = "NoSuchIdException"
               /\ current_id' = current_id
               /\ cache' = cache]_vars

\* C4 witness: a switch succeeded and returned a previous current that
\* differs from the new one.
C4_Witness ==
    /\ last.op = "switch_current_excel_document"
    /\ last.exc = "none"
    /\ last.ret # PyNone
    /\ last.ret # current_id
    /\ current_id = last.a.id

\* C5: a close with N >= 1 registered documents removes exactly the current
\* one and leaves the other entries as they were; afterwards current is one
\* of the remaining identifiers when N > 1, and None with an empty _cache
\* when N = 1.
C5_CloseCurrentRemovesCurrent ==
    [][(last'.op = "close_current_excel_document" /\ Len(cache) >= 1)
       => /\ Registered(current_id)
          /\ Len(cache') = Len(cache) - 1
          /\ KeySet(cache') = KeySet(cache) \ {current_id.s}
          /\ \A k \in KeySet(cache') : Lookup(cache', k) = Lookup(cache, k)
          /\ Len(cache) > 1 => (current_id'.t = "str" /\ current_id'.s \in KeySet(cache'))
          /\ Len(cache) = 1 => (current_id' = PyNone /\ cache' = <<>>)]_vars

\* C5 witness: a close left two documents registered, one of them current.
C5_Witness ==
    /\ last.op = "close_current_excel_document"
    /\ Len(cache) = 2
    /\ Registered(current_id)

\* C6: close_all_excel_documents never raises and leaves _cache empty and
\* current None, whatever the state it is called in.
C6_CloseAllEmpties ==
    [][last'.op = "close_all_excel_documents"
       => (last'.exc = "none" /\ cache' = <<>> /\ current_id' = PyNone)]_vars

\* C6 witness: close_all has run and the session is empty.
C6_Witness ==
    /\ last.op = "close_all_excel_documents"
    /\ last.exc = "none"
    /\ cache = <<>>

\* C7 (the claim as stated): every accessor called while no document is
\* open raises NoOpenedDocumentsException.  (No accessor changes the set of
\* registered documents, so none is open before the call exactly when none
\* is open after it.)
C7_AccessorsFailWithoutDocument ==
    (last.op \in AccessorOps /\ cache = <<>>) => last.exc = "NoOpenedDocumentsException"

\* C8 (the claim as stated): after write_excel_cell(r, c, v) has returned,
\* read_excel_cell(r, c) on the same sheet returns v, for every v (None
\* included) and whatever the cell held before.
C8_CellRoundTrip ==
    (last.op = "write_excel_cell" /\ last.exc = "none")
    => LET o == read_excel_cell(cache, current_id, PyInt(last.a.row), PyInt(last.a.col),
                                last.a.sheet) IN
       o.exc = "none" /\ o.ret = last.a.value

\* C9: after write_excel_row(r, values, col_offset = k) has returned, with
\* r >= 1 and n >= 1 values none of which is None,
\* read_excel_row(r, col_offset = k, max_num = n) on the same sheet returns
\* exactly values.
C9_RowRoundTrip ==
    (/\ last.op = "write_excel_row"
     /\ last.exc = "none"
     /\ last.a.row >= 1
     /\ Len(last.a.data) >= 1
     /\ NoAbsent(last.a.data))
    => LET o == read_excel_row(cache, current_id, PyInt(last.a.row), PyInt(last.a.coff),
                               PyInt(Len(last.a.data)), last.a.sheet) IN
       o.exc = "none" /\ o.retlist = last.a.data

\* C9 witness: a row write of one value at column offset 1 has returned.
C9_Witness ==
    /\ last.op = "write_excel_row"
    /\ last.exc = "none"
    /\ last.a.row = 2
    /\ last.a.coff = 1
    /\ last.a.data = <<PyInt(7)>>

\* C10: after write_excel_column(c, values, row_offset = k) has returned,
\* with c >= 1 and n >= 1 values none of which is None,
\* read_excel_column(c, row_offset = k, max_num = n) on the same sheet
\* returns exactly values.
C10_ColumnRoundTrip ==
    (/\ last.op = "write_excel_column"
     /\ last.exc = "none"
     /\ last.a.col >= 1
     /\ Len(last.a.data) >= 1
     /\ NoAbsent(last.a.data))
    => LET o == read_excel_column(cache, current_id, PyInt(last.a.col), PyInt(last.a.roff),
                                  PyInt(Len(last.a.data)), last.a.sheet) IN
       o.exc = "none" /\ o.retlist = last.a.data

\* C10 witness: a column write of one value at row offset 1 has returned.
C10_Witness ==
    /\ last.op = "write_excel_column"
    /\ last.exc = "none"
    /\ last.a.col = 2
    /\ last.a.roff = 1
    /\ last.a.data = <<PyStr("x")>>

\* the value readers see at (r, col) of the sheet `sheet_name` of the current
\* document: None for a cell that does not exist
CellValue(c, cur, sheet_name, r, col) ==
    LET cells == SheetCells(c, get_sheet(c, cur, sheet_name)) IN
    IF <<r, col>> \in DOMAIN cells THEN cells[<<r, col>>] ELSE PyNone

\* C11 (the claim as stated): read_excel_row(row, col_offset, max_num)
\* returns exactly max_num values, the cells of the row at columns
\* col_offset + 1 .. col_offset + max_num, and read_excel_column(col,
\* row_offset, max_num) exactly max_num values, the cells of the column at
\* rows row_offset + 1 .. row_offset + max_num, for every max_num >= 0.
C11_ReadReturnsCountValues ==
    /\ (last.op = "read_excel_row" /\ last.exc = "none" /\ last.a.row >= 1)
       => /\ Len(last.retlist) = last.a.num
          /\ \A i \in 1..last.a.num :
                last.retlist[i] =
                    CellValue(cache, current_id, last.a.sheet, last.a.row, last.a.coff + i)
    /\ (last.op = "read_excel_column" /\ last.exc = "none" /\ last.a.col >= 1)
       => /\ Len(last.retlist) = last.a.num
          /\ \A i \in 1..last.a.num :
                last.retlist[i] =
                    CellValue(cache, current_id, last.a.sheet, last.a.roff + i, last.a.col)

\* the part of C11 with max_num >= 1
C11_PositiveCount ==
    (last.op \in {"read_excel_row", "read_excel_column"} /\ last.a.num >= 1)
    => C11_ReadReturnsCountValues

\* the cells write_excel_rows(rows, rows_offset, col_offset) is to write
RowsTargets(a) ==
    UNION {{<<a.roff + i, a.coff + j>> : j \in 1..Len(a.rows[i])} : i \in 1..Len(a.rows)}

\* a returned write_excel_rows step on an open document holds the j-th value
\* of the i-th inner list in cell (rows_offset + i, col_offset + j) afterwards
\* (i, j counted from 1), and every other cell is as it was
RowsPlaced ==
    LET a == last'.a
        old == SheetCells(cache, get_sheet(cache, current_id, a.sheet))
        new == SheetCells(cache', get_sheet(cache', current_id', a.sheet)) IN
    /\ \A i \in 1..Len(a.rows) : \A j \in 1..Len(a.rows[i]) :
          CellValue(cache', current_id', a.sheet, a.roff + i, a.coff + j) = a.rows[i][j]
    /\ DOMAIN new \ RowsTargets(a) = DOMAIN old \ RowsTargets(a)
    /\ \A p \in DOMAIN old \ RowsTargets(a) : new[p] = old[p]

\* C12 (the claim as stated): write_excel_rows writes the j-th value of the
\* i-th inner list to cell (rows_offset + i + 1, col_offset + j + 1), i and j
\* counted from 0, for all i and j and every value, and changes no other
\* cell.
C12_WriteRowsPlacesValues ==
    [][(/\ last'.op = "write_excel_rows"
        /\ last'.exc = "none"
        /\ get_sheet(cache, current_id, last'.a.sheet).exc = "none")
       => RowsPlaced]_vars

\* the part of C12 with no None among the values
C12_NonAbsentValues ==
    [][(/\ last'.op = "write_excel_rows"
        /\ last'.exc = "none"
        /\ get_sheet(cache, current_id, last'.a.sheet).exc = "none"
        /\ \A i \in 1..Len(last'.a.rows) : NoAbsent(last'.a.rows[i]))
       => RowsPlaced]_vars

CloseOps == {"close_current_excel_document", "close_all_excel_documents"}

\* C13: an identifier enters _cache only in a returned create/open step (and
\* it is that step's identifier) and leaves it only in a close step; switch
\* and every accessor leave the keys of _cache as they were, and every
\* accessor leaves current as it was.
C13_RegistryChangesOnlyByOpenAndClose ==
    [][/\ (KeySet(cache') \ KeySet(cache) # {})
          => /\ last'.op \in OpenOps
             /\ last'.exc = "none"
             /\ KeySet(cache') \ KeySet(cache) = {str(last'.a.id)}
       /\ (KeySet(cache) \ KeySet(cache') # {}) => last'.op \in CloseOps
       /\ (last'.op \in AccessorOps \cup {"switch_current_excel_document"})
          => Keys(cache') = Keys(cache)
       /\ (last'.op \in AccessorOps) => current_id' = current_id]_vars

\* C13 witness: a cell write has returned and changed a workbook while two
\* documents are registered.
C13_Witness ==
    /\ last.op = "write_excel_cell"
    /\ last.exc = "none"
    /\ last.a.value = PyStr("x")
    /\ Len(cache) = 2
    /\ CellValue(cache, current_id, PyNone, 1, 1) = PyStr("x")

\* C14 (the claim as stated): switch_current_excel_document called with a
\* value whose string is a registered identifier (the value a create was
\* called with, a non-string such as the integer 1 included) returns and
\* makes that document current.
C14_SwitchCoercesIdentifier ==
    [][(last'.op = "switch_current_excel_document" /\ str(last'.a.id) \in KeySet(cache))
       => (last'.exc = "none" /\ current_id' = PyStr(str(last'.a.id)))]_vars

\* C15 (the claim as stated): while current is present (any registered
\* identifier, the empty string included) no accessor raises
\* NoOpenedDocumentsException; it is raised only when current is None.  (No
\* accessor changes current, so it is present after the call exactly when it
\* was before.)
C15_NoOpenDocumentOnlyWhenAbsent ==
    (last.op \in AccessorOps /\ current_id # PyNone)
    => last.exc # "NoOpenedDocumentsException"

\* the part of C15 with a current identifier other than the empty string
C15_NonEmptyIdentifier ==
    (last.op \in AccessorOps /\ current_id # PyNone /\ current_id # PyStr(""))
    => last.exc # "NoOpenedDocumentsException"

\* C16: in every reachable state current is None exactly when _cache is
\* empty.
C16_CurrentAbsentIffEmpty == (current_id = PyNone) <=> (cache = <<>>)

\* C16 witness: a close left exactly the document "" registered, and it is
\* current.
C16_Witness ==
    /\ last.op = "close_current_excel_document"
    /\ Keys(cache) = <<"">>
    /\ current_id = PyStr("")

\* C17: an open (from a file or a stream) that raises the engine's error
\* leaves _cache and current as they were, its identifier is not registered,
\* and a create with the same identifier succeeds afterwards.
C17_FailedOpenChangesNothing ==
    [][(/\ last'.op \in {"open_excel_document", "open_excel_document_from_stream"}
        /\ last'.exc = "EngineError")
       => /\ cache' = cache
          /\ current_id' = current_id
          /\ str(last'.a.id) \notin KeySet(cache')
          /\ LET o == create_excel_document(cache', current_id', last'.a.id) IN
             o.exc = "none" /\ o.cur = PyStr(str(last'.a.id))]_vars

\* C17 witness: an open of the malformed file has raised the engine's error
\* while two documents are registered.
C17_Witness ==
    /\ last.op = "open_excel_document"
    /\ last.exc = "EngineError"
    /\ Len(cache) = 2
    /\ Registered(current_id)

\* C19: when a close leaves _cache non-empty, the remaining keys keep their
\* insertion order and the new current is the first of them.
C19_CloseMakesEarliestCurrent ==
    [][(last'.op = "close_current_excel_document" /\ Len(cache') > 0)
       => /\ Keys(cache') = SelectSeq(Keys(cache), LAMBDA k : PyStr(k) # current_id)
          /\ current_id' = PyStr(Keys(cache')[1])]_vars

\* C19 witness: a close left two documents, and the one registered first is
\* current although it was registered before the other.
C19_Witness ==
    /\ last.op = "close_current_excel_document"
    /\ Keys(cache) = <<"1", "a">>
    /\ current_id = PyStr("1")

WriteOps == {"write_excel_cell", "write_excel_row", "write_excel_rows", "write_excel_column"}

\* a write step leaves every entry of _cache other than the current one as it
\* was, and a switch step leaves all of _cache as it was
WritesStayInCurrent ==
    /\ (last'.op \in WriteOps)
       => /\ Len(cache') = Len(cache)
          /\ \A i \in 1..Len(cache) : PyStr(cache[i].id) # current_id => cache'[i] = cache[i]
    /\ (last'.op = "switch_current_excel_document") => cache' = cache

\* what a returned write_excel_cell wrote is what read_excel_cell then reads
\* in the document that is current
WrittenIsRead ==
    (last'.op = "write_excel_cell" /\ last'.exc = "none")
    => CellValue(cache', current_id', last'.a.sheet, last'.a.row, last'.a.col) = last'.a.value

\* C18 (the claim as stated): a write changes cells of the current document
\* only, switching changes no cell, and so after switching to B, writing to
\* B and switching back to A, read_excel_cell on A returns the values last
\* written to A.
C18_WritesOnlyInCurrentDocument ==
    [][WritesStayInCurrent /\ WrittenIsRead]_vars

\* the part of C18 that does not depend on the value written: no write
\* reaches a document that is not current, and no switch changes a cell
C18_Isolation == [][WritesStayInCurrent]_vars

\* the part of C18 with values other than None
C18_NonAbsentValues ==
    [][WritesStayInCurrent /\ (last'.a.value # PyNone => WrittenIsRead)]_vars

====
